---- MODULE Spec2Model ----
(***************************************************************************)
(* Model of the two analysis tools of the repository:                      *)
(*   fastqc.py                      parse_fastq, detect_adapters,          *)
(*                                  find_duplicates and the main flow      *)
(*   Calculadora_de_Contenido_GC.py calcular_gc, parse_fasta and the two   *)
(*                                  input modes                            *)
(* Strings are modelled as tuples of one-character strings.  The GC         *)
(* percentage, which is rounded to two decimals, is computed in binary64   *)
(* arithmetic as Python does.  The percentages of detect_adapters and      *)
(* find_duplicates are returned unrounded and are modelled as the exact    *)
(* rationals [num, den] they approximate to within one unit in the last    *)
(* place.                                                                  *)
(***************************************************************************)
EXTENDS Integers, Sequences, FiniteSets, TLC

VARIABLES
    \* ---- fastqc.py: parse_fastq and the main flow ----
    stream,            \* the records SeqIO.parse will yield from the uploaded file
    pc,                \* position of the analysis
    tmp_exists,        \* the NamedTemporaryFile(delete=False) is on disk
    handle_open,       \* the read handle of the with-block is open
    pulled,            \* records SeqIO.parse was advanced over (parsed) so far
    i,                 \* enumerate index of the current record (-1: unbound)
    lengths, qualities, ambiguous_bases, all_sequences,
    nucleotide_counts, total_reads,
    error,             \* exception that ended the analysis, or "none"
    adapters,          \* main flow: result of detect_adapters
    duplicates,        \* main flow: result of find_duplicates
    \* ---- fastqc.py: detect_adapters / find_duplicates called on a list ----
    sequences,         \* the argument
    adapter_ret,       \* outcome of detect_adapters(sequences), or "pending"
    duplicate_ret,     \* outcome of find_duplicates(sequences), or "pending"
    \* ---- Calculadora_de_Contenido_GC.py ----
    texto,             \* text pasted in the text area / content of the uploaded file
    gc_ret,            \* value returned by calcular_gc(texto), or "pending"
    fasta_ret,         \* value returned by parse_fasta(texto), or "pending"
    modo,              \* "none", or the input mode that has run
    resultados         \* the result rows

fastqVars == <<stream, pc, tmp_exists, handle_open, pulled, i, lengths, qualities,
               ambiguous_bases, all_sequences, nucleotide_counts, total_reads,
               error, adapters, duplicates>>
fnVars == <<sequences, adapter_ret, duplicate_ret>>
gcVars == <<texto, gc_ret, fasta_ret, modo, resultados>>
vars == <<fastqVars, fnVars, gcVars>>

----------------------------------------------------------------------------
(* Bounds *)

\* Ceiling of parse_fastq on the number of processed records.  The code's
\* literal is 10000 (fastqc.py:76); the model runs the same loop with a small
\* ceiling so that streams below, at and above the ceiling are all explored.
N_MAX == 4
\* Streams of up to N_MAX + Over records are explored.
Over == 1
\* Streams of up to MaxStream records are drawn from the full set of reads.
MaxStream == 2
\* Argument lists of detect_adapters / find_duplicates have up to MaxSeqs reads.
MaxSeqs == 3
\* Input texts of the GC tool have up to MaxText characters.
MaxText == 4

\* Number of slots of each per-symbol vector
MAX_POS == 150

----------------------------------------------------------------------------
(* Generic helpers *)

Min(a, b) == IF a <= b THEN a ELSE b

Range(s) == {s[k] : k \in 1..Len(s)}

\* All tuples over S of length lo..hi
TuplesOf(S, lo, hi) == UNION {[1..n -> S] : n \in lo..hi}

\* str.count(ch) for a one-character ch
Count(s, ch) == Cardinality({k \in 1..Len(s) : s[k] = ch})

\* pattern repeated cyclically up to length n
Rep(pattern, n) == [k \in 1..n |-> pattern[((k - 1) % Len(pattern)) + 1]]

\* An exact rational: the float (n / d) * 100
Pct(n, d) == [num |-> 100 * n, den |-> d]
RatEq(r, n, d) == r.num * d = n * r.den
RatLeq(r, n, d) == r.num * d <= n * r.den

----------------------------------------------------------------------------
(* fastqc.py: the record stream *)

\* A well-formed record as SeqIO yields it: the read and one Phred score per base
Record(seq) == [ok |-> TRUE, seq |-> seq,
                qual |-> [k \in 1..Len(seq) |-> 20 + (k % 3)]]
\* A record SeqIO.parse cannot parse (truncated, lengths differ): it raises ValueError
BadRecord == [ok |-> FALSE, seq |-> <<>>, qual |-> <<>>]

Read150 == Rep(<<"A", "C", "G", "T", "N">>, 150)
Read151 == Rep(<<"T", "A">>, 150) \o <<"X">>
Read200 == Rep(<<"G", "G", "N", "C">>, 200)

Reads == {<<>>, <<"A">>, <<"N", "C", "N">>, Read150, Read151, Read200}
TinyReads == {<<"A">>, <<"N", "G">>}

Items == {Record(r) : r \in Reads} \cup {BadRecord}
TinyItems == {Record(r) : r \in TinyReads} \cup {BadRecord}

Streams == TuplesOf(Items, 0, MaxStream)
             \cup TuplesOf(TinyItems, MaxStream + 1, N_MAX + Over)

----------------------------------------------------------------------------
(* fastqc.py: parse_fastq *)

\* `if i >= 10000: break`
AtCeiling_gt(idx) == idx > N_MAX
AtCeiling(idx) == idx >= N_MAX

\* defaultdict(lambda: [0]*150): the vector a missing key gets
ZeroVector == [p \in 1..MAX_POS |-> 0]

\* the defaultdict before any key is touched
EmptyCounts == [b \in {} |-> ZeroVector]

\* `if pos < 150`
InTable_le(pos) == pos <= MAX_POS - 2
InTable(pos) == pos < MAX_POS

\* for pos, base in enumerate(str(record.seq)):
\*     if pos < 150: nucleotide_counts[base][pos] += 1
\* Every position of the read is visited once, so the loop adds one to slot pos
\* of the vector of seq[pos] for every pos that passes the test; a key is
\* created (with the zero vector) only when the increment touches it.
\* pos is 0-based, the tuples are 1-based.
CountBases(counts, seq) ==
    LET visited == {pos \in 0..(Len(seq) - 1) : InTable(pos)}
        touched == {seq[pos + 1] : pos \in visited}
        old(base) == IF base \in DOMAIN counts THEN counts[base] ELSE ZeroVector
    IN [base \in (DOMAIN counts) \cup touched |->
           [slot \in DOMAIN old(base) |->
               old(base)[slot] + IF (slot - 1) \in visited /\ seq[slot] = base
                                 THEN 1 ELSE 0]]

\* with NamedTemporaryFile(delete=False, ...) as tmp_file: write; tmp_path = name
CreateTemp ==
    /\ pc = "start"
    /\ tmp_exists' = TRUE
    /\ pc' = "open"
    /\ UNCHANGED <<stream, handle_open, pulled, i, lengths, qualities, ambiguous_bases,
                   all_sequences, nucleotide_counts, total_reads, error,
                   adapters, duplicates, fnVars, gcVars>>

\* the accumulators are created and the with-block opens the handle
OpenHandle ==
    /\ pc = "open"
    /\ lengths' = <<>>
    /\ qualities' = <<>>
    /\ ambiguous_bases' = <<>>
    /\ all_sequences' = <<>>
    /\ nucleotide_counts' = EmptyCounts
    /\ total_reads' = 0
    /\ handle_open' = TRUE
    /\ pc' = "loop"
    /\ UNCHANGED <<stream, tmp_exists, pulled, i, error, adapters, duplicates,
                   fnVars, gcVars>>

\* the iterator is exhausted: the for loop ends and the with-block closes the handle
IterExhausted ==
    /\ pc = "loop"
    /\ pulled = Len(stream)
    /\ handle_open' = FALSE
    /\ pc' = "unlink"
    /\ UNCHANGED <<stream, tmp_exists, pulled, i, lengths, qualities, ambiguous_bases,
                   all_sequences, nucleotide_counts, total_reads, error,
                   adapters, duplicates, fnVars, gcVars>>

\* SeqIO.parse raises on the next record: the with-block closes the handle and
\* the exception leaves parse_fastq (line 93 is not reached)
IterRaise ==
    /\ pc = "loop"
    /\ pulled < Len(stream)
    /\ ~stream[pulled + 1].ok
    /\ handle_open' = FALSE
    /\ error' = "ValueError"
    /\ pc' = "parse_raised"
    /\ UNCHANGED <<stream, tmp_exists, pulled, i, lengths, qualities, ambiguous_bases,
                   all_sequences, nucleotide_counts, total_reads,
                   adapters, duplicates, fnVars, gcVars>>

\* the next record is parsed and yielded with index i >= ceiling: break
IterBreak ==
    /\ pc = "loop"
    /\ pulled < Len(stream)
    /\ stream[pulled + 1].ok
    /\ AtCeiling(pulled)
    /\ pulled' = pulled + 1
    /\ i' = pulled
    /\ handle_open' = FALSE
    /\ pc' = "unlink"
    /\ UNCHANGED <<stream, tmp_exists, lengths, qualities, ambiguous_bases,
                   all_sequences, nucleotide_counts, total_reads, error,
                   adapters, duplicates, fnVars, gcVars>>

\* list.append(item) of lengths, qualities, ambiguous_bases and all_sequences
ListAppend_front(list, item) == <<item>> \o list
ListAppend(list, item) == Append(list, item)

\* the next record is parsed and yielded with index i below the ceiling: loop body
IterProcess ==
    /\ pc = "loop"
    /\ pulled < Len(stream)
    /\ stream[pulled + 1].ok
    /\ ~AtCeiling(pulled)
    /\ LET record == stream[pulled + 1] IN
        /\ pulled' = pulled + 1
        /\ i' = pulled
        /\ lengths' = ListAppend(lengths, Len(record.seq))
        /\ qualities' = ListAppend(qualities, record.qual)
        /\ ambiguous_bases' = ListAppend(ambiguous_bases, Count(record.seq, "N"))
        /\ all_sequences' = ListAppend(all_sequences, record.seq)
        /\ nucleotide_counts' = CountBases(nucleotide_counts, record.seq)
        /\ total_reads' = pulled + 1
    /\ UNCHANGED <<stream, pc, tmp_exists, handle_open, error,
                   adapters, duplicates, fnVars, gcVars>>

\* os.unlink(tmp_path); return {...}
Unlink ==
    /\ pc = "unlink"
    /\ tmp_exists' = FALSE
    /\ pc' = "parsed"
    /\ UNCHANGED <<stream, handle_open, pulled, i, lengths, qualities, ambiguous_bases,
                   all_sequences, nucleotide_counts, total_reads, error,
                   adapters, duplicates, fnVars, gcVars>>

----------------------------------------------------------------------------
(* fastqc.py: detect_adapters and find_duplicates *)

\* Outcome of a call: pending, returned with a value, or raised
Pending == [status |-> "pending"]
Returned(v) == [status |-> "returned", value |-> v]
Raised(e) == [status |-> "raised", value |-> e]

ADAPTER_1 == <<"A", "G", "A", "T", "C", "G", "G", "A", "A", "G", "A", "G">>
ADAPTER_2 == <<"C", "T", "G", "T", "C", "T", "C", "T", "T", "A", "T", "A">>
\* default value of the parameter `adapters`
DefaultAdapters == <<ADAPTER_1, ADAPTER_2>>

\* Python's `adapter in seq` on str: contiguous, case-sensitive
Contains(seq, adapter) ==
    \E k \in 0..(Len(seq) - Len(adapter)) : SubSeq(seq, k + 1, k + Len(adapter)) = adapter

\* for seq in sequences: for adapter in adapters: if adapter in seq: counts[adapter] += 1
RECURSIVE CountAdapters(_, _, _)
CountAdapters(counts, seqs, k) ==
    IF k > Len(seqs) THEN counts
    ELSE CountAdapters([a \in DOMAIN counts |->
                           IF Contains(seqs[k], a) THEN counts[a] + 1 ELSE counts[a]],
                       seqs, k + 1)

detect_adapters(seqs) ==
    LET adapter_counts == CountAdapters([a \in Range(DefaultAdapters) |-> 0], seqs, 1)
        total == Len(seqs)
    IN IF total = 0
       THEN Raised("ZeroDivisionError")
       ELSE Returned([a \in DOMAIN adapter_counts |-> Pct(adapter_counts[a], total)])

\* Counter(sequences)
RECURSIVE Counter(_, _, _)
Counter(counter, seqs, k) ==
    IF k > Len(seqs) THEN counter
    ELSE Counter([s \in (DOMAIN counter) \cup {seqs[k]} |->
                     IF s = seqs[k]
                     THEN (IF s \in DOMAIN counter THEN counter[s] ELSE 0) + 1
                     ELSE counter[s]],
                 seqs, k + 1)

\* `if count > 1` of the dict comprehension
IsDuplicate_ge(count) == count >= 1
IsDuplicate(count) == count > 1

find_duplicates(seqs) ==
    LET sequence_counter == Counter([s \in {} |-> 0], seqs, 1)
        dups == {s \in DOMAIN sequence_counter : IsDuplicate(sequence_counter[s])}
    IN IF Len(seqs) = 0
       THEN Raised("ZeroDivisionError")
       ELSE Returned(Pct(Cardinality(dups), Len(seqs)))

\* main flow, line 334 (np.mean of the empty lists on lines 327-329 gives nan
\* with a warning and does not raise)
MainDetectAdapters ==
    /\ pc = "parsed"
    /\ adapters' = detect_adapters(all_sequences)
    /\ IF adapters'.status = "raised"
       THEN error' = adapters'.value /\ pc' = "main_raised"
       ELSE error' = error /\ pc' = "adapters"
    /\ UNCHANGED <<stream, tmp_exists, handle_open, pulled, i, lengths, qualities,
                   ambiguous_bases, all_sequences, nucleotide_counts, total_reads,
                   duplicates, fnVars, gcVars>>

\* main flow, line 335
MainFindDuplicates ==
    /\ pc = "adapters"
    /\ duplicates' = find_duplicates(all_sequences)
    /\ IF duplicates'.status = "raised"
       THEN error' = duplicates'.value /\ pc' = "main_raised"
       ELSE error' = error /\ pc' = "done"
    /\ UNCHANGED <<stream, tmp_exists, handle_open, pulled, i, lengths, qualities,
                   ambiguous_bases, all_sequences, nucleotide_counts, total_reads,
                   adapters, fnVars, gcVars>>

\* The other tools are idle
FnIdle == sequences = <<>> /\ adapter_ret = Pending /\ duplicate_ret = Pending
GcIdle == /\ texto = <<>> /\ gc_ret = Pending /\ fasta_ret = Pending
          /\ modo = "none" /\ resultados = <<>>
FastqIdle ==
    /\ stream = <<>> /\ pc = "idle" /\ tmp_exists = FALSE /\ handle_open = FALSE
    /\ pulled = 0 /\ i = -1 /\ lengths = <<>> /\ qualities = <<>>
    /\ ambiguous_bases = <<>> /\ all_sequences = <<>>
    /\ nucleotide_counts = EmptyCounts /\ total_reads = 0 /\ error = "none"
    /\ adapters = Pending /\ duplicates = Pending

\* A file has been uploaded; parse_fastq is about to run
Init ==
    /\ stream \in Streams
    /\ pc = "start"
    /\ tmp_exists = FALSE /\ handle_open = FALSE
    /\ pulled = 0 /\ i = -1
    /\ lengths = <<>> /\ qualities = <<>> /\ ambiguous_bases = <<>>
    /\ all_sequences = <<>> /\ nucleotide_counts = EmptyCounts /\ total_reads = 0
    /\ error = "none" /\ adapters = Pending /\ duplicates = Pending
    /\ FnIdle /\ GcIdle

Next ==
    \/ CreateTemp
    \/ OpenHandle
    \/ IterExhausted
    \/ IterRaise
    \/ IterBreak
    \/ IterProcess
    \/ Unlink
    \/ MainDetectAdapters
    \/ MainFindDuplicates

Spec == Init /\ [][Next]_vars

----------------------------------------------------------------------------
(* Calculadora_de_Contenido_GC.py *)

Chars == {">", "\n", " ", "A", "g", "C", "N"}
\* 160 bases of which 23, 49 or 80 are G or C, with letters in lower case and
\* characters that are dropped
LongTexts == {Rep(<<"g">>, 23) \o Rep(<<"A">>, 137),
              <<"N">> \o Rep(<<"C">>, 49) \o <<" ">> \o Rep(<<"A">>, 111),
              Rep(<<"g", "A">>, 160) \o <<"\n">>}
Texts == TuplesOf(Chars, 0, MaxText) \cup LongTexts

Whitespace == {" ", "\n", "\t", "\r"}
Lower == {"a", "c", "g", "t", "n"}
UpperOf == [ch \in Lower |->
               CASE ch = "a" -> "A" [] ch = "c" -> "C" [] ch = "g" -> "G"
                 [] ch = "t" -> "T" [] ch = "n" -> "N"]

\* str.upper()
upper(s) == [k \in 1..Len(s) |-> IF s[k] \in Lower THEN UpperOf[s[k]] ELSE s[k]]

\* str.strip(): leading and trailing whitespace removed
strip(s) ==
    LET inked == {k \in 1..Len(s) : s[k] \notin Whitespace}
    IN IF inked = {} THEN <<>>
       ELSE SubSeq(s, CHOOSE k \in inked : \A j \in inked : k <= j,
                      CHOOSE k \in inked : \A j \in inked : k >= j)

\* str.rstrip(): trailing whitespace removed
rstrip(s) ==
    LET inked == {k \in 1..Len(s) : s[k] \notin Whitespace}
    IN IF inked = {} THEN <<>>
       ELSE SubSeq(s, 1, CHOOSE k \in inked : \A j \in inked : k >= j)

IsBase(ch) == ch \in {"A", "T", "C", "G"}

\* re.sub(r'[^ATCG]', '', s)
OnlyATCG(s) == SelectSeq(s, IsBase)

\* secuencia.upper().strip()
Normalize_noupper(secuencia) == strip(secuencia)
Normalize(secuencia) == strip(upper(secuencia))

\* ---- binary64 arithmetic of count_gc / total * 100 and round(porcentaje, 2) ----
\* A positive float is [zero |-> FALSE, m, e]: m is its 53-bit significand as
\* five limbs in base 2^13, most significant first, the first limb being the
\* leading 1; its value is m * 2^(e - 52), which lies in [2^e, 2^(e+1)).
\* The operands of the model stay far from the subnormal and overflow ranges.
Base == 2 ^ 13
FZero == [zero |-> TRUE, m |-> <<0, 0, 0, 0, 0>>, e |-> 0]

\* m + 1 (limbs k..5 already carry), the first limb may reach 2
RECURSIVE IncAt(_, _)
IncAt(m, k) ==
    IF k = 1 \/ m[k] + 1 < Base THEN [m EXCEPT ![k] = @ + 1]
    ELSE IncAt([m EXCEPT ![k] = 0], k - 1)

\* round to nearest, ties to even: guard is the first dropped bit, sticky tells
\* whether any later dropped bit is set
RoundNearestEven(m, e, guard, sticky) ==
    IF guard = 1 /\ (sticky \/ m[5] % 2 = 1)
    THEN LET up == IncAt(m, 5)
         IN IF up[1] = 2 THEN [zero |-> FALSE, m |-> <<1, 0, 0, 0, 0>>, e |-> e + 1]
            ELSE [zero |-> FALSE, m |-> up, e |-> e]
    ELSE [zero |-> FALSE, m |-> m, e |-> e]

\* the e with 2^e <= a / b < 2^(e+1), for positive ints a and b
\* (b * 2^x <= a is written b <= a \div 2^x, and so on, to stay within 32 bits)
Exponent(a, b) ==
    CHOOSE x \in -20..20 :
        IF x >= 0
        THEN b <= a \div 2 ^ x /\ a \div 2 ^ (x + 1) < b
        ELSE /\ (b + 2 ^ (-x) - 1) \div 2 ^ (-x) <= a
             /\ a < (b + 2 ^ (-x - 1) - 1) \div 2 ^ (-x - 1)

\* a / b of two ints (true division): the correctly rounded quotient
FDiv(a, b) ==
    IF a = 0 THEN FZero
    ELSE LET e == Exponent(a, b)
             num == IF e < 0 THEN a * 2 ^ (-e) ELSE a
             den == IF e < 0 THEN b ELSE b * 2 ^ e
             r0 == num - den
             f1 == (r0 * Base) \div den
             r1 == (r0 * Base) % den
             f2 == (r1 * Base) \div den
             r2 == (r1 * Base) % den
             f3 == (r2 * Base) \div den
             r3 == (r2 * Base) % den
             f4 == (r3 * Base) \div den
             r4 == (r3 * Base) % den
         IN RoundNearestEven(<<1, f1, f2, f3, f4>>, e,
                             (2 * r4) \div den, (2 * r4) % den # 0)

\* the exact integer m * 100 as limbs, the first limb left unreduced (100..199)
Times100(m) ==
    LET t5 == m[5] * 100
        t4 == m[4] * 100 + t5 \div Base
        t3 == m[3] * 100 + t4 \div Base
        t2 == m[2] * 100 + t3 \div Base
        t1 == m[1] * 100 + t2 \div Base
    IN <<t1, t2 % Base, t3 % Base, t4 % Base, t5 % Base>>

\* x * 100: the exact product rounded to 53 bits
FMul100(x) ==
    IF x.zero THEN FZero
    ELSE LET P == Times100(x.m)
             s == IF P[1] >= 128 THEN 7 ELSE 6
             low == 2 ^ s
             high == 2 ^ (13 - s)
             m == <<P[1] \div low,
                    (P[1] % low) * high + P[2] \div low,
                    (P[2] % low) * high + P[3] \div low,
                    (P[3] % low) * high + P[4] \div low,
                    (P[4] % low) * high + P[5] \div low>>
             dropped == P[5] % low
         IN RoundNearestEven(m, x.e + s, dropped \div (low \div 2),
                             dropped % (low \div 2) # 0)

\* bit n (0 = least significant) of the integer held in the limbs P
BitOf(P, n) ==
    IF n >= 52 THEN (IF n - 52 > 8 THEN 0 ELSE (P[1] \div 2 ^ (n - 52)) % 2)
    ELSE (P[5 - (n \div 13)] \div 2 ^ (n % 13)) % 2

\* the integer held in bits from, from + 1, ... of P (at most 15 bits are set)
RECURSIVE BitsFrom(_, _, _)
BitsFrom(P, from, k) ==
    IF k > 14 THEN 0 ELSE BitOf(P, from + k) * 2 ^ k + BitsFrom(P, from, k + 1)

\* round(x, 2): the decimal with two places nearest to the exact value of the
\* float x, ties to even; returned as its number of hundredths over 100
PyRound2(x) ==
    IF x.zero THEN [num |-> 0, den |-> 100]
    ELSE LET P == Times100(x.m)
             F == 52 - x.e
             h == BitsFrom(P, F, 0)
             half == BitOf(P, F - 1)
             sticky == \E n \in 0..(F - 2) : BitOf(P, n) = 1
         IN [num |-> IF half = 1 /\ (sticky \/ h % 2 = 1) THEN h + 1 ELSE h,
             den |-> 100]

\* returns <<porcentaje, count_g, count_c, count_a, count_t>>
calcular_gc(secuencia) ==
    LET sec == OnlyATCG(Normalize(secuencia))
        total == Len(sec)
        count_g == Count(sec, "G")
        count_c == Count(sec, "C")
        count_a == Count(sec, "A")
        count_t == Count(sec, "T")
        count_gc == count_g + count_c
        porcentaje == FMul100(FDiv(count_gc, total))
    IN IF total = 0
       THEN <<[num |-> 0, den |-> 100], 0, 0, 0, 0>>
       ELSE <<PyRound2(porcentaje), count_g, count_c, count_a, count_t>>

\* str.splitlines() (the texts of the model break lines with "\n" only)
RECURSIVE splitlines(_)
splitlines(s) ==
    IF s = <<>> THEN <<>>
    ELSE LET breaks == {k \in 1..Len(s) : s[k] = "\n"}
         IN IF breaks = {} THEN <<s>>
            ELSE LET nl == CHOOSE k \in breaks : \A j \in breaks : k <= j
                 IN <<SubSeq(s, 1, nl - 1)>> \o splitlines(SubSeq(s, nl + 1, Len(s)))

\* ''.join(parts)
RECURSIVE join(_)
join(parts) == IF parts = <<>> THEN <<>> ELSE Head(parts) \o join(Tail(parts))

\* linea.startswith('>')
IsMarker(linea) == Len(linea) > 0 /\ linea[1] = ">"

\* secuencias[key] = value on a dict, kept as the list of its items in
\* insertion order: an existing key keeps its place and gets the new value
DictSet(dict, key, value) ==
    IF \E n \in 1..Len(dict) : dict[n].id = key
    THEN [n \in 1..Len(dict) |-> IF dict[n].id = key
                                  THEN [id |-> key, seq |-> value] ELSE dict[n]]
    ELSE Append(dict, [id |-> key, seq |-> value])

\* `if current_id:` before storing the record that just ended
StoreCurrent(st) ==
    IF st.current_id # <<>>
    THEN DictSet(st.secuencias, st.current_id, join(st.current_seq))
    ELSE st.secuencias

\* the body of `for linea in contenido.splitlines()`
FastaStep(st, linea) ==
    IF IsMarker(linea)
    THEN [secuencias |-> StoreCurrent(st),
          current_id |-> strip(SubSeq(linea, 2, Len(linea))),
          current_seq |-> <<>>]
    ELSE [st EXCEPT !.current_seq = Append(@, strip(linea))]

RECURSIVE FastaLoop(_, _, _)
FastaLoop(st, lineas, n) ==
    IF n > Len(lineas) THEN st ELSE FastaLoop(FastaStep(st, lineas[n]), lineas, n + 1)

parse_fasta(contenido) ==
    StoreCurrent(FastaLoop([secuencias |-> <<>>, current_id |-> <<>>, current_seq |-> <<>>],
                           splitlines(contenido), 1))

\* calcular_gc is called on the text
CallCalcularGc ==
    /\ pc = "idle" /\ modo = "none" /\ gc_ret = Pending
    /\ gc_ret' = Returned(calcular_gc(texto))
    /\ UNCHANGED <<fastqVars, fnVars, texto, fasta_ret, modo, resultados>>

\* mode "Secuencia directa": the button is clicked with the text in the text area
DirectMode ==
    /\ pc = "idle" /\ modo = "none" /\ gc_ret = Pending
    /\ modo' = "Secuencia directa"
    /\ resultados' =
          IF strip(texto) # <<>>
          THEN LET r == calcular_gc(texto)
               IN Append(resultados,
                         [ID |-> "Secuencia ingresada", GC |-> r[1],
                          Longitud |-> Len(OnlyATCG(upper(texto))),
                          G |-> r[2], C |-> r[3], A |-> r[4], T |-> r[5]])
          ELSE resultados
    /\ UNCHANGED <<fastqVars, fnVars, texto, gc_ret, fasta_ret>>

\* one row per item of secuencias (the identifiers of the model are shorter
\* than the 50 characters after which the ID is abbreviated)
FileRows(secuencias) ==
    [n \in 1..Len(secuencias) |->
        LET r == calcular_gc(secuencias[n].seq)
        IN [ID |-> secuencias[n].id, GC |-> r[1],
            Longitud |-> Len(secuencias[n].seq),
            G |-> r[2], C |-> r[3], A |-> r[4], T |-> r[5]]]

\* mode "Archivo FASTA": a file with the text as content is uploaded
FileMode ==
    /\ pc = "idle" /\ modo = "none" /\ gc_ret = Pending
    /\ modo' = "Archivo FASTA"
    /\ fasta_ret' = Returned(parse_fasta(texto))
    /\ resultados' = resultados \o FileRows(fasta_ret'.value)
    /\ UNCHANGED <<fastqVars, fnVars, texto, gc_ret>>

InitGC ==
    /\ FastqIdle /\ FnIdle
    /\ texto \in Texts
    /\ gc_ret = Pending /\ fasta_ret = Pending
    /\ modo = "none" /\ resultados = <<>>

NextGC == CallCalcularGc \/ DirectMode \/ FileMode

SpecGC == InitGC /\ [][NextGC]_vars

----------------------------------------------------------------------------
(* detect_adapters and find_duplicates called on an arbitrary list of reads *)

LOWER_ADAPTER_1 == <<"a", "g", "a", "t", "c", "g", "g", "a", "a", "g", "a", "g">>

FnReads == {<<"A", "C">>,
            ADAPTER_1,
            ADAPTER_2,
            <<"T">> \o ADAPTER_1 \o <<"C">>,
            SubSeq(ADAPTER_1, 1, 11) \o <<"T">>,
            LOWER_ADAPTER_1,
            ADAPTER_2 \o ADAPTER_1}

\* Ten reads: ADAPTER_1 at three places, seven pairwise distinct reads elsewhere
Others == <<<<"A">>, <<"C">>, <<"G">>, <<"T">>, <<"N">>, <<"A", "C">>, ADAPTER_2>>
TripleAt(P) ==
    [k \in 1..10 |-> IF k \in P THEN ADAPTER_1
                     ELSE Others[Cardinality({j \in 1..k : j \notin P})]]
ScenarioLists == {TripleAt(P) : P \in {Q \in SUBSET (1..10) : Cardinality(Q) = 3}}

SeqLists == TuplesOf(FnReads, 0, MaxSeqs) \cup ScenarioLists

CallDetectAdapters ==
    /\ pc = "idle"
    /\ adapter_ret = Pending
    /\ adapter_ret' = detect_adapters(sequences)
    /\ UNCHANGED <<fastqVars, sequences, duplicate_ret, gcVars>>

CallFindDuplicates ==
    /\ pc = "idle"
    /\ duplicate_ret = Pending
    /\ duplicate_ret' = find_duplicates(sequences)
    /\ UNCHANGED <<fastqVars, sequences, adapter_ret, gcVars>>

InitFn ==
    /\ FastqIdle /\ GcIdle
    /\ sequences \in SeqLists
    /\ adapter_ret = Pending
    /\ duplicate_ret = Pending

NextFn == CallDetectAdapters \/ CallFindDuplicates

SpecFn == InitFn /\ [][NextFn]_vars

----------------------------------------------------------------------------
(* Properties of parse_fastq and of the main flow (under Spec) *)

ParseReturned == pc \in {"parsed", "adapters", "done", "main_raised"}
WellFormed == \A k \in 1..Len(stream) : stream[k].ok

\* C1: when parse_fastq returns on a stream of k well-formed records,
\* total_reads = min(k, ceiling): 0 for the empty stream, k below the ceiling,
\* the ceiling for every k at or above it.
C1_TotalReads ==
    (ParseReturned /\ WellFormed) => total_reads = Min(Len(stream), N_MAX)

C1_Witness ==
    /\ pc = "parsed" /\ WellFormed
    /\ Len(stream) > N_MAX
    /\ total_reads = N_MAX

RECURSIVE SumAt(_, _, _)
SumAt(counts, S, slot) ==
    IF S = {} THEN 0
    ELSE LET s == CHOOSE x \in S : TRUE
         IN counts[s][slot] + SumAt(counts, S \ {s}, slot)

\* C2: at every point of parse_fastq, for every position p < 150 the counts of
\* all symbols at p add up to the number of records processed so far that are
\* longer than p; every per-symbol vector has exactly 150 slots, so a longer
\* record contributes to positions 0..149 only, and it is processed normally.
C2_NucleotideTable ==
    /\ \A p \in 0..(MAX_POS - 1) :
          SumAt(nucleotide_counts, DOMAIN nucleotide_counts, p + 1)
            = Cardinality({j \in 1..total_reads : Len(stream[j].seq) > p})
    /\ \A s \in DOMAIN nucleotide_counts : DOMAIN nucleotide_counts[s] = 1..MAX_POS

C2_Witness ==
    /\ pc = "parsed"
    /\ total_reads = 2
    /\ Len(stream[1].seq) = 200
    /\ Len(stream[2].seq) = 3
    /\ SumAt(nucleotide_counts, DOMAIN nucleotide_counts, MAX_POS) = 1
    /\ SumAt(nucleotide_counts, DOMAIN nucleotide_counts, 1) = 2

\* C5: the analysis of a stream with zero records never raises: parse_fastq
\* returns total_reads = 0 and empty lists, and find_duplicates of that empty
\* list of sequences returns 0.
C5_EmptyNeverRaises ==
    stream = <<>> =>
        /\ error = "none"
        /\ ParseReturned =>
              /\ total_reads = 0
              /\ lengths = <<>> /\ qualities = <<>>
              /\ ambiguous_bases = <<>> /\ all_sequences = <<>>
              /\ find_duplicates(all_sequences).status = "returned"
              /\ RatEq(find_duplicates(all_sequences).value, 0, 1)

\* C6: the record iterator is never advanced past the ceiling: at most
\* ceiling-many records are pulled (parsed) from the stream.
C6_NeverPastCeiling == pulled <= N_MAX

\* C7: every run of parse_fastq, whether it returns or raises, ends with the
\* temporary file removed and the read handle closed.
C7_Cleanup ==
    (ParseReturned \/ pc = "parse_raised") => (~tmp_exists /\ ~handle_open)

\* C11: at every point of parse_fastq, with n = total_reads records processed,
\* lengths, qualities, ambiguous_bases and sequences have exactly n entries, and
\* the entries at place k come from the k-th record of the stream:
\* lengths[k] = length of sequences[k] = length of qualities[k], and
\* ambiguous_bases[k] = number of 'N' in sequences[k], at most lengths[k].
C11_ListsInOrder ==
    /\ Len(lengths) = total_reads
    /\ Len(qualities) = total_reads
    /\ Len(ambiguous_bases) = total_reads
    /\ Len(all_sequences) = total_reads
    /\ total_reads <= Len(stream)
    /\ \A k \in 1..total_reads :
          /\ all_sequences[k] = stream[k].seq
          /\ qualities[k] = stream[k].qual
          /\ lengths[k] = Len(all_sequences[k])
          /\ lengths[k] = Len(qualities[k])
          /\ ambiguous_bases[k]
                = Cardinality({p \in 1..Len(all_sequences[k]) : all_sequences[k][p] = "N"})
          /\ ambiguous_bases[k] <= lengths[k]

C11_Witness ==
    /\ pc = "parsed"
    /\ total_reads = 2
    /\ stream[1].seq = <<"N", "C", "N">>
    /\ stream[2].seq = Read200
    /\ lengths = <<3, 200>>
    /\ ambiguous_bases = <<2, 50>>

----------------------------------------------------------------------------
(* Properties of find_duplicates and detect_adapters (under SpecFn) *)

Occurrences(seqs, s) == Cardinality({k \in 1..Len(seqs) : seqs[k] = s})
Repeated(seqs) == {s \in Range(seqs) : Occurrences(seqs, s) > 1}

\* C3: on every non-empty list find_duplicates returns
\* (number of distinct reads occurring more than once) / (number of reads) * 100:
\* 0 when all reads are distinct, 100/total when all of total > 1 reads are
\* equal, 10 when one read occurs 3 times among 10 whose other 7 are distinct.
C3_DuplicatePercentage ==
    (duplicate_ret.status # "pending" /\ sequences # <<>>) =>
        /\ duplicate_ret.status = "returned"
        /\ RatEq(duplicate_ret.value, 100 * Cardinality(Repeated(sequences)),
                 Len(sequences))
        /\ Cardinality(Range(sequences)) = Len(sequences)
              => RatEq(duplicate_ret.value, 0, 1)
        /\ (Cardinality(Range(sequences)) = 1 /\ Len(sequences) > 1)
              => RatEq(duplicate_ret.value, 100, Len(sequences))
        /\ (Len(sequences) = 10 /\ Cardinality(Range(sequences)) = 8
               /\ \E s \in Range(sequences) : Occurrences(sequences, s) = 3)
              => RatEq(duplicate_ret.value, 10, 1)

C3_Witness ==
    /\ duplicate_ret.status = "returned"
    /\ Len(sequences) = 10
    /\ Cardinality(Range(sequences)) = 8
    /\ Occurrences(sequences, ADAPTER_1) = 3
    /\ RatEq(duplicate_ret.value, 10, 1)

\* C4: for every list of reads, the empty one included, detect_adapters returns
\* for each adapter a percentage in [0, 100] equal to 100 * (reads containing
\* the adapter) / (reads), and 0 for every adapter when the list is empty; it
\* never raises.
C4_AdapterPercentages ==
    adapter_ret.status # "pending" =>
        /\ adapter_ret.status = "returned"
        /\ \A a \in Range(DefaultAdapters) :
              LET v == adapter_ret.value[a]
                  n == Cardinality({k \in 1..Len(sequences) : Contains(sequences[k], a)})
              IN /\ v.num >= 0
                 /\ IF Len(sequences) = 0
                    THEN v.num = 0
                    ELSE RatLeq(v, 100, 1) /\ RatEq(v, 100 * n, Len(sequences))

----------------------------------------------------------------------------
(* Properties of the GC tool (under SpecGC) *)

\* C8 (as stated): for every input, calcular_gc returns a percentage in
\* [0, 100] equal to round(100 * (G + C) / total, 2), G and C counted in the
\* upper-cased input and total its number of characters among A, C, G, T;
\* when total = 0 it returns 0.0 and four zero counts.
C8_GcPercentage ==
    gc_ret.status = "returned" =>
        LET u == upper(texto)
            G == Count(u, "G")
            C == Count(u, "C")
            total == Cardinality({k \in 1..Len(u) : IsBase(u[k])})
            r == gc_ret.value
        IN /\ r[1].den = 100
           /\ r[1].num >= 0 /\ r[1].num <= 10000
           /\ IF total = 0
              THEN r[1].num = 0 /\ r[2] = 0 /\ r[3] = 0 /\ r[4] = 0 /\ r[5] = 0
              ELSE r[1] = PyRound2(FDiv(100 * (G + C), total))

\* C8 (amended): for every input, calcular_gc returns a percentage in [0, 100]
\* equal to round((G + C) / total * 100, 2) evaluated in floating point in that
\* order, which is a multiple of 0.01 within 0.005 of 100 * (G + C) / total;
\* G, C and total as above, and 0.0 with four zero counts when total = 0.
C8_GcPercentageFloat ==
    gc_ret.status = "returned" =>
        LET u == upper(texto)
            G == Count(u, "G")
            C == Count(u, "C")
            total == Cardinality({k \in 1..Len(u) : IsBase(u[k])})
            r == gc_ret.value
            diff == r[1].num * total - 10000 * (G + C)
        IN /\ r[1].den = 100
           /\ r[1].num >= 0 /\ r[1].num <= 10000
           /\ IF total = 0
              THEN r[1].num = 0 /\ r[2] = 0 /\ r[3] = 0 /\ r[4] = 0 /\ r[5] = 0
              ELSE /\ r[1] = PyRound2(FMul100(FDiv(G + C, total)))
                   /\ 2 * diff <= total /\ 2 * diff >= -total
                   /\ r[2] = G /\ r[3] = C

\* 23 G of 160 bases, typed in lower case: 14.375 is returned as 14.37
C8_Witness ==
    /\ gc_ret.status = "returned"
    /\ Len(texto) = 160
    /\ Count(texto, "g") = 23
    /\ gc_ret.value[1] = [num |-> 1437, den |-> 100]

\* C9: in both input modes, the Longitud of every result row is the filtered
\* length: it equals G + C + A + T of the row.
C9_LongitudIsFiltered ==
    \A n \in 1..Len(resultados) :
        resultados[n].Longitud
          = resultados[n].G + resultados[n].C + resultados[n].A + resultados[n].T

MarkerLines(lineas) == {n \in 1..Len(lineas) : IsMarker(lineas[n])}
\* the lines after marker line m up to the next marker line or the end
BodyOf(lineas, m) ==
    LET later == {n \in MarkerLines(lineas) : n > m}
        stop == IF later = {} THEN Len(lineas) + 1
                ELSE CHOOSE n \in later : \A j \in later : n <= j
    IN SubSeq(lineas, m + 1, stop - 1)
RStripAll(lineas) == [n \in 1..Len(lineas) |-> rstrip(lineas[n])]
\* the marker lines in order of appearance
RECURSIVE MarkersInOrder(_, _)
MarkersInOrder(lineas, n) ==
    IF n > Len(lineas) THEN <<>>
    ELSE (IF IsMarker(lineas[n]) THEN <<n>> ELSE <<>>) \o MarkersInOrder(lineas, n + 1)

\* C10: parse_fasta yields one record per marker line: as many entries as
\* marker lines, the sequence of each being the concatenation of the lines up
\* to the next marker line with only line-ending whitespace removed; an input
\* without marker line yields no record.
C10_OneRecordPerMarker ==
    fasta_ret.status = "returned" =>
        LET lineas == splitlines(texto)
            markers == MarkersInOrder(lineas, 1)
        IN /\ Len(fasta_ret.value) = Len(markers)
           /\ \A n \in 1..Len(markers) :
                 fasta_ret.value[n].seq = join(RStripAll(BodyOf(lineas, markers[n])))

====
